---- MODULE Spec2Model ----
(***************************************************************************)
(* A model of the Sudojo solver client: the query encoder                  *)
(* (createURLSearchParams), the configuration factory (createApiConfig),   *)
(* and the SudojoSolverClient class with its three operations, each of     *)
(* which builds one URL, issues one GET on the injected transport and      *)
(* classifies the transport's answer.                                       *)
(*                                                                         *)
(* A JavaScript string is a sequence of one-character strings, so that     *)
(* prefixes, substrings and the order of keys are things the model         *)
(* computes.  A JavaScript value is a record tagged with its type (t).     *)
(***************************************************************************)
EXTENDS Naturals, Sequences, FiniteSets, TLC

VARIABLES
    cfg,        \* the ClientConfig the client was constructed from
    client,     \* the client's fields: config (createApiConfig's result), headers
    calls,      \* per call: position (pc), operation, argument, transport answer, outcome
    getLog,     \* the GETs the transport has received, in order
    params,     \* a query encoder's params object: entries in insertion order
    appended,   \* the (key, value) pairs appended to that encoder, in order
    query,      \* the encoder's last toString() result
    hooks       \* per hook: the arguments of its last render, its memoized client,
                \* the options it gave useQuery, and its query function's run

vars == <<cfg, client, calls, getLog, params, appended, query, hooks>>

clientVars == <<cfg, client, calls, getLog>>
encoderVars == <<params, appended, query>>
hookVars == <<hooks>>

----------------------------------------------------------------------------
(* Bounds *)

MaxSlashes == 2     \* trailing '/' characters of the configured base URL
MaxCalls == 2       \* calls of one client that may be in flight together
MaxAppends == 3     \* append() calls on one query encoder

----------------------------------------------------------------------------
(* JavaScript values *)

Undefined == [t |-> "undefined"]
Null == [t |-> "null"]
Bool(b) == [t |-> "boolean", b |-> b]
Str(s) == [t |-> "string", s |-> s]
Num(n) == [t |-> "number", n |-> n]
Obj(props) == [t |-> "object", props |-> props]
None == [t |-> "none"]      \* a field of the model that holds nothing yet

\* options.name: reading a property an object does not have gives undefined
prop(o, name) == IF name \in DOMAIN o.props THEN o.props[name] ELSE Undefined

----------------------------------------------------------------------------
(* Strings *)

Alphabet == <<"a", "b", "c", "d", "e", "f", "g", "h", "i", "j", "k", "l", "m",
              "n", "o", "p", "q", "r", "s", "t", "u", "v", "w", "x", "y", "z">>

\* the UTF-16 code unit of a lowercase letter
CharCode(c) == 96 + (CHOOSE i \in 1..26 : Alphabet[i] = c)

\* a < b in the order Array.prototype.sort() uses without a comparator:
\* by UTF-16 code units, a proper prefix first
RECURSIVE LexLess(_, _)
LexLess(a, b) ==
    IF b = <<>> THEN FALSE
    ELSE IF a = <<>> THEN TRUE
    ELSE IF Head(a) = Head(b) THEN LexLess(Tail(a), Tail(b))
    ELSE CharCode(Head(a)) < CharCode(Head(b))

RECURSIVE join(_, _)
join(parts, sep) ==
    IF parts = <<>> THEN <<>>
    ELSE IF Len(parts) = 1 THEN parts[1]
    ELSE parts[1] \o sep \o join(Tail(parts), sep)

S_true == <<"t", "r", "u", "e">>
S_false == <<"f", "a", "l", "s", "e">>

\* encodeURIComponent on the characters the inputs use
encodeChar(c) ==
    CASE c = "," -> <<"%", "2", "C">>
      [] c = "&" -> <<"%", "2", "6">>
      [] c = "=" -> <<"%", "3", "D">>
      [] OTHER -> <<c>>

RECURSIVE encodeURIComponent(_)
encodeURIComponent(s) ==
    IF s = <<>> THEN <<>> ELSE encodeChar(Head(s)) \o encodeURIComponent(Tail(s))

\* (a variant that percent-encodes the value, as URLSearchParams would)
StringOfEncoded(v) ==
    encodeURIComponent(IF v.t = "boolean" THEN (IF v.b THEN S_true ELSE S_false) ELSE v.s)

\* String(value) for the values buildUrl passes: a boolean or a string
StringOf(v) ==
    IF v.t = "boolean" THEN (IF v.b THEN S_true ELSE S_false) ELSE v.s

----------------------------------------------------------------------------
(* createURLSearchParams: the query encoder *)

K_original == <<"o", "r", "i", "g", "i", "n", "a", "l">>
K_user == <<"u", "s", "e", "r">>
K_autopencilmarks == <<"a", "u", "t", "o", "p", "e", "n", "c", "i", "l", "m", "a", "r", "k", "s">>
K_pencilmarks == <<"p", "e", "n", "c", "i", "l", "m", "a", "r", "k", "s">>
K_filters == <<"f", "i", "l", "t", "e", "r", "s">>
K_symmetrical == <<"s", "y", "m", "m", "e", "t", "r", "i", "c", "a", "l">>

\* const params: Record<string, string[]> = {}
createURLSearchParams == <<>>

hasKey(ps, key) == \E i \in 1..Len(ps) : ps[i].key = key

\* (a variant that sets the key's array to the one value: params[key] = [value])
appendOverwriting(ps, key, value) ==
    IF hasKey(ps, key)
    THEN [ps EXCEPT ![CHOOSE i \in 1..Len(ps) : ps[i].key = key].values = <<value>>]
    ELSE Append(ps, [key |-> key, values |-> <<value>>])

\* append: create the key's array when it is missing, then push the value
append(ps, key, value) ==
    LET p1 == IF hasKey(ps, key) THEN ps
              ELSE Append(ps, [key |-> key, values |-> <<>>])
        i == CHOOSE i \in 1..Len(p1) : p1[i].key = key
    IN  [p1 EXCEPT ![i].values = Append(@, value)]

\* Object.keys(params): own keys in insertion order
ObjectKeys(ps) == [i \in 1..Len(ps) |-> ps[i].key]

removeAt(s, i) == SubSeq(s, 1, i - 1) \o SubSeq(s, i + 1, Len(s))

\* keys.sort(): ascending by LexLess (the keys of an object are distinct)
RECURSIVE sort(_)
sort(keys) ==
    IF keys = <<>> THEN <<>>
    ELSE LET i == CHOOSE i \in 1..Len(keys) :
                    \A j \in 1..Len(keys) : ~LexLess(keys[j], keys[i])
         IN  <<keys[i]>> \o sort(removeAt(keys, i))

valuesOf(ps, key) ==
    IF hasKey(ps, key)
    THEN ps[CHOOSE i \in 1..Len(ps) : ps[i].key = key].values
    ELSE <<>>

\* (params[key] ?? []).map((value) => `${key}=${value}`)
pairsOf(ps, key) ==
    [j \in 1..Len(valuesOf(ps, key)) |-> key \o <<"=">> \o valuesOf(ps, key)[j]]

RECURSIVE flatMap(_, _)
flatMap(keys, ps) ==
    IF keys = <<>> THEN <<>>
    ELSE pairsOf(ps, Head(keys)) \o flatMap(Tail(keys), ps)

\* (a variant that leaves the keys in insertion order)
toStringUnsorted(ps) == join(flatMap(ObjectKeys(ps), ps), <<"&">>)
toString(ps) == join(flatMap(sort(ObjectKeys(ps)), ps), <<"&">>)

----------------------------------------------------------------------------
(* createApiConfig and the constructor *)

S_api_solve == <<"/", "a", "p", "i", "/", "s", "o", "l", "v", "e">>
S_api_validate == <<"/", "a", "p", "i", "/", "v", "a", "l", "i", "d", "a", "t", "e">>
S_api_generate == <<"/", "a", "p", "i", "/", "g", "e", "n", "e", "r", "a", "t", "e">>

\* (a variant for /\/$/: one trailing '/' goes)
stripOneSlash(s) ==
    IF s # <<>> /\ s[Len(s)] = "/" THEN SubSeq(s, 1, Len(s) - 1) ELSE s

\* baseUrl.replace(/\/+$/, ''): the whole run of '/' that ends the string goes
RECURSIVE stripTrailingSlashes(_)
stripTrailingSlashes(s) ==
    IF s # <<>> /\ s[Len(s)] = "/"
    THEN stripTrailingSlashes(SubSeq(s, 1, Len(s) - 1))
    ELSE s

DEFAULT_HEADERS ==
    {<<"Content-Type", "application/json">>, <<"Accept", "application/json">>}

createApiConfig(config) ==
    [BASE_URL |-> stripTrailingSlashes(config.baseUrl),
     ENDPOINTS |-> [SOLVE |-> S_api_solve,
                    VALIDATE |-> S_api_validate,
                    GENERATE |-> S_api_generate],
     DEFAULT_HEADERS |-> DEFAULT_HEADERS]

\* new SudojoSolverClient(networkClient, config)
constructor(networkClient, config) ==
    [networkClient |-> networkClient,
     config |-> createApiConfig(config),
     headers |-> createApiConfig(config).DEFAULT_HEADERS]

----------------------------------------------------------------------------
(* buildUrl *)

S_undefined == <<"u", "n", "d", "e", "f", "i", "n", "e", "d">>

\* (a variant without the `value !== undefined` test: String(undefined) is appended)
RECURSIVE appendEntriesNoSkip(_, _)
appendEntriesNoSkip(ps, entries) ==
    IF entries = <<>> THEN ps
    ELSE LET e == Head(entries)
         IN  appendEntriesNoSkip(
                 append(ps, e[1],
                        IF e[2].t = "undefined" THEN S_undefined
                        ELSE IF e[2].t = "boolean"
                             THEN (IF e[2].b THEN S_true ELSE S_false)
                        ELSE e[2].s),
                 Tail(entries))

\* the for loop over Object.entries(params): entries are <<key, value>> in the
\* order of the object literal; an undefined value is skipped
RECURSIVE appendEntries(_, _)
appendEntries(ps, entries) ==
    IF entries = <<>> THEN ps
    ELSE LET e == Head(entries)
         IN  appendEntries(
                 IF e[2].t # "undefined" THEN append(ps, e[1], StringOf(e[2])) ELSE ps,
                 Tail(entries))

\* (a variant that writes the '?' even when the query is empty)
buildUrlAlwaysQuery(cl, endpoint, entries) ==
    cl.config.BASE_URL \o endpoint \o <<"?">>
    \o toString(appendEntries(createURLSearchParams, entries))

buildUrl(cl, endpoint, entries) ==
    LET q == toString(appendEntries(createURLSearchParams, entries))
    IN  cl.config.BASE_URL \o endpoint \o (IF q # <<>> THEN <<"?">> \o q ELSE <<>>)

----------------------------------------------------------------------------
(* The three operations: the URL each one builds *)

solveEntries(options) ==
    << <<K_original, prop(options, "original")>>,
       <<K_user, prop(options, "user")>>,
       <<K_autopencilmarks, prop(options, "autoPencilmarks")>>,
       <<K_pencilmarks, prop(options, "pencilmarks")>>,
       <<K_filters, prop(options, "filters")>> >>

validateEntries(options) == << <<K_original, prop(options, "original")>> >>

EmptyObject == Obj([x \in {} |-> Undefined])

\* generate(options: GenerateOptions = {}): the default applies to a missing
\* (undefined) argument only
generateOptions(arg) == IF arg.t = "undefined" THEN EmptyObject ELSE arg

generateEntries(arg) ==
    << <<K_symmetrical, prop(generateOptions(arg), "symmetrical")>> >>

solveUrl(cl, options) == buildUrl(cl, cl.config.ENDPOINTS.SOLVE, solveEntries(options))
validateUrl(cl, options) ==
    buildUrl(cl, cl.config.ENDPOINTS.VALIDATE, validateEntries(options))
generateUrl(cl, arg) == buildUrl(cl, cl.config.ENDPOINTS.GENERATE, generateEntries(arg))

----------------------------------------------------------------------------
(* request: the classification of the transport's answer *)

SudojoApiError(message, statusCode, response) ==
    [name |-> "SudojoApiError", message |-> message,
     statusCode |-> statusCode, response |-> response]

Error(message) == [name |-> "Error", message |-> message]

Throw(e) == [type |-> "throw", error |-> e]
Return(v) == [type |-> "return", value |-> v]

ApiErrorMessage(status) == "API request failed with status " \o ToString(status)

NoDataMessage == "No data received from server"

\* (a variant that leaves the body out of the SudojoApiError)
requestOutcomeNoBody(settled) ==
    IF settled.state = "rejected" THEN Throw(settled.error)
    ELSE LET response == settled.response
         IN  IF ~response.ok
             THEN Throw(SudojoApiError(ApiErrorMessage(response.status),
                                       response.status, Undefined))
             ELSE IF response.data.t = "undefined" \/ response.data.t = "null"
             THEN Throw(Error(NoDataMessage))
             ELSE Return(response.data)

\* (a variant that also reads a status of 400 or more as a failure)
requestOutcomeByStatus(settled) ==
    IF settled.state = "rejected" THEN Throw(settled.error)
    ELSE LET response == settled.response
         IN  IF ~response.ok \/ response.status >= 400
             THEN Throw(SudojoApiError(ApiErrorMessage(response.status),
                                       response.status, response.data))
             ELSE IF response.data.t = "undefined" \/ response.data.t = "null"
             THEN Throw(Error(NoDataMessage))
             ELSE Return(response.data)

\* (a variant that throws when the envelope says success: false)
requestOutcomeValidating(settled) ==
    IF settled.state = "rejected" THEN Throw(settled.error)
    ELSE LET response == settled.response
         IN  IF ~response.ok
             THEN Throw(SudojoApiError(ApiErrorMessage(response.status),
                                       response.status, response.data))
             ELSE IF response.data.t = "undefined" \/ response.data.t = "null"
             THEN Throw(Error(NoDataMessage))
             ELSE IF response.data.t = "object"
                     /\ prop(response.data, "success") = Bool(FALSE)
             THEN Throw(SudojoApiError(ApiErrorMessage(response.status),
                                       response.status, response.data))
             ELSE Return(response.data)

\* (a variant that catches the transport's error and wraps it)
requestOutcomeWrapping(settled) ==
    IF settled.state = "rejected"
    THEN Throw(SudojoApiError(settled.error.message, 0, Undefined))
    ELSE LET response == settled.response
         IN  IF ~response.ok
             THEN Throw(SudojoApiError(ApiErrorMessage(response.status),
                                       response.status, response.data))
             ELSE IF response.data.t = "undefined" \/ response.data.t = "null"
             THEN Throw(Error(NoDataMessage))
             ELSE Return(response.data)

\* (a variant that tests the body before the ok flag)
requestOutcomeBodyFirst(settled) ==
    IF settled.state = "rejected" THEN Throw(settled.error)
    ELSE LET response == settled.response
         IN  IF response.data.t = "undefined" \/ response.data.t = "null"
             THEN Throw(Error(NoDataMessage))
             ELSE IF ~response.ok
             THEN Throw(SudojoApiError(ApiErrorMessage(response.status),
                                       response.status, response.data))
             ELSE Return(response.data)

\* (a variant that tests the body with `!response.data`)
requestOutcomeFalsy(settled) ==
    IF settled.state = "rejected" THEN Throw(settled.error)
    ELSE LET response == settled.response
         IN  IF ~response.ok
             THEN Throw(SudojoApiError(ApiErrorMessage(response.status),
                                       response.status, response.data))
             ELSE IF response.data \in {Undefined, Null, Num(0), Bool(FALSE), Str(<<>>)}
             THEN Throw(Error(NoDataMessage))
             ELSE Return(response.data)

\* what follows `await this.networkClient.get(url, {headers})`: a rejected get
\* makes the await throw, and nothing in request catches it
requestOutcome(settled) ==
    IF settled.state = "rejected" THEN Throw(settled.error)
    ELSE LET response == settled.response
         IN  IF ~response.ok
             THEN Throw(SudojoApiError(ApiErrorMessage(response.status),
                                       response.status, response.data))
             ELSE IF response.data.t = "undefined" \/ response.data.t = "null"
             THEN Throw(Error(NoDataMessage))
             ELSE Return(response.data)

----------------------------------------------------------------------------
(* Actions of a client *)

CallIds == 1..MaxCalls

IdleCall == [pc |-> "idle", op |-> "none", arg |-> None, settled |-> None,
             outcome |-> None]

\* The synchronous part of an operation: buildUrl, then request up to its
\* await, which has called networkClient.get(url, {headers: this.headers}).
\* Calls are numbered in the order they are made.
IssueOn(cl, c, op, arg, url) ==
    /\ calls[c].pc = "idle"
    /\ \A d \in DOMAIN calls : d < c => calls[d].pc # "idle"
    /\ calls' = [calls EXCEPT ![c] = [pc |-> "awaiting", op |-> op, arg |-> arg,
                                      settled |-> None, outcome |-> None]]
    /\ getLog' = Append(getLog, [call |-> c, net |-> cl.networkClient, url |-> url,
                                 headers |-> cl.headers])
    /\ UNCHANGED <<cfg, client, encoderVars>>

\* an operation called on the client itself, outside any hook
Issue(c, op, arg, url) == IssueOn(client, c, op, arg, url) /\ UNCHANGED hookVars

Solve(c, options) == Issue(c, "solve", options, solveUrl(client, options))

Validate(c, options) == Issue(c, "validate", options, validateUrl(client, options))

Generate(c, arg) == Issue(c, "generate", arg, generateUrl(client, arg))

\* The transport fulfils the promise get returned
TransportResolve(c, response) ==
    /\ calls[c].pc = "awaiting"
    /\ calls' = [calls EXCEPT ![c].pc = "settled",
                              ![c].settled = [state |-> "fulfilled",
                                              response |-> response]]
    /\ UNCHANGED <<cfg, client, getLog, encoderVars, hookVars>>

\* The transport rejects the promise get returned
TransportReject(c, err) ==
    /\ calls[c].pc = "awaiting"
    /\ calls' = [calls EXCEPT ![c].pc = "settled",
                              ![c].settled = [state |-> "rejected", error |-> err]]
    /\ UNCHANGED <<cfg, client, getLog, encoderVars, hookVars>>

\* (a variant that sends the GET again when the transport failed)
ResumeRetrying(c) ==
    /\ calls[c].pc = "settled"
    /\ IF calls[c].settled.state = "rejected"
          /\ Cardinality({i \in 1..Len(getLog) : getLog[i].call = c}) < 2
       THEN /\ calls' = [calls EXCEPT ![c].pc = "awaiting", ![c].settled = None]
            /\ getLog' = Append(getLog,
                   getLog[CHOOSE i \in 1..Len(getLog) : getLog[i].call = c])
       ELSE /\ calls' = [calls EXCEPT ![c].pc = "done",
                                      ![c].outcome = requestOutcome(calls[c].settled)]
            /\ UNCHANGED getLog
    /\ UNCHANGED <<cfg, client, encoderVars, hookVars>>

\* (a variant whose client keeps the last answer in a field all calls share)
ResumeShared(c) ==
    /\ calls[c].pc = "settled"
    /\ LET last == CHOOSE d \in DOMAIN calls :
                       /\ calls[d].settled # None
                       /\ \A e \in DOMAIN calls : calls[e].settled # None => e <= d
       IN  calls' = [calls EXCEPT ![c].pc = "done",
                                  ![c].outcome = requestOutcome(calls[last].settled)]
    /\ UNCHANGED <<cfg, client, getLog, encoderVars, hookVars>>

\* (a variant that gives up a GET still pending when a timeout is configured)
ResumeTimingOut(c) ==
    /\ \/ /\ calls[c].pc = "settled"
          /\ calls' = [calls EXCEPT ![c].pc = "done",
                                    ![c].outcome = requestOutcome(calls[c].settled)]
       \/ /\ calls[c].pc = "awaiting"
          /\ cfg.timeout # Undefined
          /\ calls' = [calls EXCEPT ![c].pc = "done",
                                    ![c].outcome = Throw(Error("Request timed out"))]
    /\ UNCHANGED <<cfg, client, getLog, encoderVars, hookVars>>

\* request resumes after its await and the operation's promise settles
Resume(c) ==
    /\ calls[c].pc = "settled"
    /\ calls' = [calls EXCEPT ![c].pc = "done",
                              ![c].outcome = requestOutcome(calls[c].settled)]
    /\ UNCHANGED <<cfg, client, getLog, encoderVars, hookVars>>

----------------------------------------------------------------------------
(* Inputs *)

V_1 == <<"1">>
V_2 == <<"2">>
V_comma == <<"1", "2", "3", ",", "4", "5", "6", ",", "7", "8", "9">>
V_test == <<"t", "e", "s", "t">>
V_amp == <<"x", "&", "u", "s", "e", "r", "=", "9">>

Host == <<"h", "/", "p">>

\* two NetworkClient objects
TransportA == "transportA"
TransportB == "transportB"

RECURSIVE slashes(_)
slashes(n) == IF n = 0 THEN <<>> ELSE <<"/">> \o slashes(n - 1)

BaseUrls == {Host \o slashes(n) : n \in 0..MaxSlashes}

Configs == [baseUrl : BaseUrls, timeout : {Undefined, Num(30000)}]

SolveOptionsNarrow ==
    {Obj([original |-> Str(V_1), user |-> Str(V_2)])}
ValidateOptionsNarrow == {Obj([original |-> Str(V_1)])}
GenerateArgsNarrow == {Undefined}

SolveOptionsWide ==
    {Obj([original |-> Str(o), user |-> Str(u), autoPencilmarks |-> a,
          pencilmarks |-> p, filters |-> f]) :
        o \in {V_1, V_comma}, u \in {V_2, <<>>},
        a \in {Undefined, Bool(TRUE), Bool(FALSE)},
        p \in {Undefined, Str(V_comma), Str(V_amp)},
        f \in {Undefined, Str(V_test), Str(V_amp)}}
        \cup SolveOptionsNarrow
ValidateOptionsWide == {Obj([original |-> Str(o)]) : o \in {V_1, V_comma, V_amp}}
GenerateArgsWide ==
    {Undefined, EmptyObject, Obj([symmetrical |-> Undefined]),
     Obj([symmetrical |-> Bool(TRUE)]), Obj([symmetrical |-> Bool(FALSE)])}

JsonStr(text) == [t |-> "string", text |-> text]

EnvOk == Obj([success |-> Bool(TRUE), error |-> Null, data |-> Null])
EnvCannotSolve ==
    Obj([success |-> Bool(FALSE),
         error |-> Obj([code |-> JsonStr("cannot_solve"),
                        message |-> JsonStr("Cannot solve this Sudoku puzzle")]),
         data |-> Null])
EnvMultipleSolutions ==
    Obj([success |-> Bool(FALSE),
         error |-> Obj([code |-> JsonStr("multiple_solutions"),
                        message |-> JsonStr("Multiple possible solutions")]),
         data |-> Null])
\* an envelope that breaks the convention: success with an error and with data
EnvInconsistent ==
    Obj([success |-> Bool(TRUE),
         error |-> Obj([code |-> JsonStr("unknown_error"), message |-> JsonStr("?")]),
         data |-> Obj([board |-> Null])])

Statuses == {200, 404, 500}
Bodies == {Undefined, Null, EnvOk, EnvCannotSolve, EnvMultipleSolutions,
           EnvInconsistent, Num(0), Bool(FALSE), Str(<<>>)}

ResponsesWide == [ok : BOOLEAN, status : Statuses, data : Bodies]
ResponsesNarrow ==
    {[ok |-> TRUE, status |-> 200, data |-> EnvOk],
     [ok |-> FALSE, status |-> 404, data |-> Undefined],
     [ok |-> TRUE, status |-> 200, data |-> Undefined]}

NetworkError == Error("Network error")
ErrorsNarrow == {NetworkError}
ErrorsWide == {NetworkError, [name |-> "TypeError", message |-> "Failed to fetch"]}

\* no hook is mounted
NoHooks == <<>>

----------------------------------------------------------------------------
(* Specifications of a client *)

Init ==
    /\ cfg \in Configs
    /\ client = constructor(TransportA, cfg)
    /\ calls = [c \in CallIds |-> IdleCall]
    /\ getLog = <<>>
    /\ params = createURLSearchParams
    /\ appended = <<>>
    /\ query = None
    /\ hooks = NoHooks

\* One client, up to MaxCalls calls in flight together
Next ==
    \E c \in CallIds :
        \/ \E o \in SolveOptionsNarrow : Solve(c, o)
        \/ \E o \in ValidateOptionsNarrow : Validate(c, o)
        \/ \E a \in GenerateArgsNarrow : Generate(c, a)
        \/ \E r \in ResponsesNarrow : TransportResolve(c, r)
        \/ \E e \in ErrorsNarrow : TransportReject(c, e)
        \/ Resume(c)

Spec == Init /\ [][Next]_vars

InitOne ==
    /\ cfg \in Configs
    /\ client = constructor(TransportA, cfg)
    /\ calls = [c \in {1} |-> IdleCall]
    /\ getLog = <<>>
    /\ params = createURLSearchParams
    /\ appended = <<>>
    /\ query = None
    /\ hooks = NoHooks

\* One call, over every argument
NextUrl ==
    \/ \E o \in SolveOptionsWide : Solve(1, o)
    \/ \E o \in ValidateOptionsWide : Validate(1, o)
    \/ \E a \in GenerateArgsWide : Generate(1, a)
    \/ \E r \in ResponsesNarrow : TransportResolve(1, r)
    \/ \E e \in ErrorsNarrow : TransportReject(1, e)
    \/ Resume(1)

SpecUrl == InitOne /\ [][NextUrl]_vars

\* One call, over every answer of the transport
NextOutcome ==
    \/ \E o \in SolveOptionsNarrow : Solve(1, o)
    \/ \E o \in ValidateOptionsNarrow : Validate(1, o)
    \/ \E a \in GenerateArgsNarrow : Generate(1, a)
    \/ \E r \in ResponsesWide : TransportResolve(1, r)
    \/ \E e \in ErrorsWide : TransportReject(1, e)
    \/ Resume(1)

SpecOutcome == InitOne /\ [][NextOutcome]_vars

----------------------------------------------------------------------------
(* Specification of a query encoder on its own *)

ProgramKeys ==
    {K_original, K_user, K_autopencilmarks, K_pencilmarks, K_filters, K_symmetrical}

EncoderValues == {V_1, V_2}

\* searchParams.append(key, value)
EncAppend(key, value) ==
    /\ Len(appended) < MaxAppends
    /\ params' = append(params, key, value)
    /\ appended' = Append(appended, <<key, value>>)
    /\ query' = None
    /\ UNCHANGED <<clientVars, hookVars>>

\* searchParams.toString()
EncToString ==
    /\ query = None
    /\ query' = Str(toString(params))
    /\ UNCHANGED <<clientVars, params, appended, hookVars>>

InitEnc ==
    /\ cfg = [baseUrl |-> Host, timeout |-> Undefined]
    /\ client = constructor(TransportA, cfg)
    /\ calls = [c \in {1} |-> IdleCall]
    /\ getLog = <<>>
    /\ params = createURLSearchParams
    /\ appended = <<>>
    /\ query = None
    /\ hooks = NoHooks

NextEnc ==
    \/ \E k \in ProgramKeys, v \in EncoderValues : EncAppend(k, v)
    \/ EncToString

SpecEnc == InitEnc /\ [][NextEnc]_vars

----------------------------------------------------------------------------
(* Hooks *)

MaxHooks == 2       \* hooks mounted together

HookIds == 1..MaxHooks

\* query-config.ts
STALE_TIMES ==
    [SOLVE |-> 1 * 60 * 1000,
     VALIDATE |-> 10 * 60 * 1000,
     GENERATE |-> 0]

\* query-keys.ts: a key is an array of values
solverBase == <<JsonStr("sudojo-solver")>>

\* (a variant that leaves the filters out of the key)
queryKeys_solver_solveUnfiltered(options) ==
    solverBase \o <<JsonStr("solve"),
                    Obj([n \in DOMAIN options.props \ {"filters"} |-> options.props[n]])>>

queryKeys_solver_solve(options) == solverBase \o <<JsonStr("solve"), options>>

queryKeys_solver_validate(original) == solverBase \o <<JsonStr("validate"), original>>

queryKeys_solver_generate(options) == solverBase \o <<JsonStr("generate"), options>>

\* {queryKey, queryFn, staleTime, ...queryOptions}: what queryOptions has
\* overwrites what is written before the spread
spread(base, queryOptions) ==
    IF queryOptions = Undefined THEN base ELSE queryOptions.props @@ base

IdleRun == [pc |-> "idle", call |-> 0, fn |-> None, result |-> None]

NoHook == [op |-> "none", networkClient |-> None, config |-> None, options |-> None,
           queryOptions |-> None, client |-> None, query |-> None, run |-> IdleRun]

\* useMemo(() => new SudojoSolverClient(networkClient, config), [networkClient, config])
useMemo(h, networkClient, config) ==
    IF /\ hooks[h].op # "none"
       /\ hooks[h].networkClient = networkClient
       /\ hooks[h].config = config
    THEN hooks[h].client
    ELSE constructor(networkClient, config)

\* One render of a hook: it is the same hook at every render of its component,
\* and what it hands to useQuery is kept
Render(h, op, networkClient, config, options, queryOptions, queryArg) ==
    /\ hooks[h].op \in {"none", op}
    /\ hooks' = [hooks EXCEPT ![h] =
                    [op |-> op, networkClient |-> networkClient, config |-> config,
                     options |-> options, queryOptions |-> queryOptions,
                     client |-> useMemo(h, networkClient, config),
                     query |-> queryArg, run |-> hooks[h].run]]
    /\ UNCHANGED <<clientVars, encoderVars>>

\* (a variant whose key also names the server)
useSolverSolvePerServer(h, networkClient, config, options, queryOptions) ==
    Render(h, "solve", networkClient, config, options, queryOptions,
           spread([queryKey |-> queryKeys_solver_solve(
                                    Obj([original |-> prop(options, "original"),
                                         user |-> prop(options, "user"),
                                         autoPencilmarks |-> prop(options, "autoPencilmarks"),
                                         pencilmarks |-> prop(options, "pencilmarks"),
                                         filters |-> prop(options, "filters")]))
                                \o <<Str(config.baseUrl)>>,
                   queryFn |-> [client |-> useMemo(h, networkClient, config),
                                op |-> "solve", arg |-> options],
                   staleTime |-> STALE_TIMES.SOLVE],
                  queryOptions))

useSolverSolve(h, networkClient, config, options, queryOptions) ==
    Render(h, "solve", networkClient, config, options, queryOptions,
           spread([queryKey |-> queryKeys_solver_solve(
                                    Obj([original |-> prop(options, "original"),
                                         user |-> prop(options, "user"),
                                         autoPencilmarks |-> prop(options, "autoPencilmarks"),
                                         pencilmarks |-> prop(options, "pencilmarks"),
                                         filters |-> prop(options, "filters")])),
                   queryFn |-> [client |-> useMemo(h, networkClient, config),
                                op |-> "solve", arg |-> options],
                   staleTime |-> STALE_TIMES.SOLVE],
                  queryOptions))

useSolverValidate(h, networkClient, config, options, queryOptions) ==
    Render(h, "validate", networkClient, config, options, queryOptions,
           spread([queryKey |-> queryKeys_solver_validate(prop(options, "original")),
                   queryFn |-> [client |-> useMemo(h, networkClient, config),
                                op |-> "validate", arg |-> options],
                   staleTime |-> STALE_TIMES.VALIDATE],
                  queryOptions))

\* (a variant that gives generate the window of solve)
useSolverGenerateCached(h, networkClient, config, arg, queryOptions) ==
    LET options == IF arg = Undefined THEN EmptyObject ELSE arg
    IN  Render(h, "generate", networkClient, config, options, queryOptions,
               spread([queryKey |-> queryKeys_solver_generate(
                                        Obj([symmetrical |-> prop(options, "symmetrical")])),
                       queryFn |-> [client |-> useMemo(h, networkClient, config),
                                    op |-> "generate", arg |-> options],
                       staleTime |-> STALE_TIMES.SOLVE],
                      queryOptions))

\* options = {} is the default of the parameter
useSolverGenerate(h, networkClient, config, arg, queryOptions) ==
    LET options == IF arg = Undefined THEN EmptyObject ELSE arg
    IN  Render(h, "generate", networkClient, config, options, queryOptions,
               spread([queryKey |-> queryKeys_solver_generate(
                                        Obj([symmetrical |-> prop(options, "symmetrical")])),
                       queryFn |-> [client |-> useMemo(h, networkClient, config),
                                    op |-> "generate", arg |-> options],
                       staleTime |-> STALE_TIMES.GENERATE],
                      queryOptions))

\* the operation a query function calls on its client
operationUrl(fn) ==
    CASE fn.op = "solve" -> solveUrl(fn.client, fn.arg)
      [] fn.op = "validate" -> validateUrl(fn.client, fn.arg)
      [] fn.op = "generate" -> generateUrl(fn.client, fn.arg)

\* The query cache runs the hook's query function, which calls the operation
\* on the memoized client: async () => client.solve(options)
QueryFn(h, c) ==
    /\ hooks[h].op # "none"
    /\ hooks[h].run.pc = "idle"
    /\ LET fn == hooks[h].query.queryFn
       IN  /\ IssueOn(fn.client, c, fn.op, fn.arg, operationUrl(fn))
           /\ hooks' = [hooks EXCEPT ![h].run = [pc |-> "pending", call |-> c,
                                                 fn |-> fn, result |-> None]]

\* (a variant that turns a failure of the operation into a result)
QueryFnSettleCatching(h) ==
    /\ hooks[h].run.pc = "pending"
    /\ calls[hooks[h].run.call].pc = "done"
    /\ hooks' = [hooks EXCEPT ![h].run.pc = "settled",
                              ![h].run.result =
                                  IF calls[hooks[h].run.call].outcome.type = "throw"
                                  THEN Return(Undefined)
                                  ELSE calls[hooks[h].run.call].outcome]
    /\ UNCHANGED <<clientVars, encoderVars>>

\* the promise of the query function settles as the operation's promise did
QueryFnSettle(h) ==
    /\ hooks[h].run.pc = "pending"
    /\ calls[hooks[h].run.call].pc = "done"
    /\ hooks' = [hooks EXCEPT ![h].run.pc = "settled",
                              ![h].run.result = calls[hooks[h].run.call].outcome]
    /\ UNCHANGED <<clientVars, encoderVars>>

----------------------------------------------------------------------------
(* Specifications of the hooks *)

Host2 == <<"h", "/", "q">>

ConfigP == [baseUrl |-> Host, timeout |-> Undefined]
ConfigQ == [baseUrl |-> Host2, timeout |-> Undefined]

HookEnvs == {<<TransportA, ConfigP>>, <<TransportB, ConfigP>>, <<TransportA, ConfigQ>>}

QueryOptions == {Undefined, Obj([staleTime |-> 5000])}

HookSolveBase == Obj([original |-> Str(V_1), user |-> Str(V_2)])

\* the base options and each change of one parameter
HookSolveOptions ==
    {HookSolveBase,
     Obj([original |-> Str(V_1), user |-> Str(V_2), autoPencilmarks |-> Undefined]),
     Obj([original |-> Str(V_comma), user |-> Str(V_2)]),
     Obj([original |-> Str(V_1), user |-> Str(<<>>)]),
     Obj([original |-> Str(V_1), user |-> Str(V_2), autoPencilmarks |-> Bool(TRUE)]),
     Obj([original |-> Str(V_1), user |-> Str(V_2), autoPencilmarks |-> Bool(FALSE)]),
     Obj([original |-> Str(V_1), user |-> Str(V_2), pencilmarks |-> Str(V_comma)]),
     Obj([original |-> Str(V_1), user |-> Str(V_2), filters |-> Str(V_test)])}

HookValidateBase == Obj([original |-> Str(V_1)])
HookValidateOptions == {HookValidateBase, Obj([original |-> Str(V_comma)])}

HookGenerateArgs ==
    {Undefined, EmptyObject, Obj([symmetrical |-> Bool(TRUE)]),
     Obj([symmetrical |-> Bool(FALSE)])}

\* every options on the first transport and server with no query options,
\* and the base options on every transport and server, with every query options
Renders(optionsSet, base) ==
    {r \in {<<e[1], e[2], o, q>> : e \in HookEnvs, o \in optionsSet, q \in QueryOptions} :
        r[3] = base \/ (r[1] = TransportA /\ r[2] = ConfigP /\ r[4] = Undefined)}

InitHooks ==
    /\ cfg = ConfigP
    /\ client = constructor(TransportA, cfg)
    /\ calls = [c \in {1} |-> IdleCall]
    /\ getLog = <<>>
    /\ params = createURLSearchParams
    /\ appended = <<>>
    /\ query = None
    /\ hooks = [h \in HookIds |-> NoHook]

\* Up to MaxHooks hooks, rendered and rendered again
NextHooks ==
    \E h \in HookIds :
        \/ \E r \in Renders(HookSolveOptions, HookSolveBase) :
               useSolverSolve(h, r[1], r[2], r[3], r[4])
        \/ \E r \in Renders(HookValidateOptions, HookValidateBase) :
               useSolverValidate(h, r[1], r[2], r[3], r[4])
        \/ \E r \in Renders(HookGenerateArgs, Undefined) :
               useSolverGenerate(h, r[1], r[2], r[3], r[4])

SpecHooks == InitHooks /\ [][NextHooks]_vars

InitQueryFn ==
    /\ cfg = ConfigP
    /\ client = constructor(TransportA, cfg)
    /\ calls = [c \in {1} |-> IdleCall]
    /\ getLog = <<>>
    /\ params = createURLSearchParams
    /\ appended = <<>>
    /\ query = None
    /\ hooks = [h \in {1} |-> NoHook]

\* One hook, whose query function runs once, over every answer of the transport
NextQueryFn ==
    \/ \E e \in HookEnvs, o \in {HookSolveBase} :
           useSolverSolve(1, e[1], e[2], o, Undefined)
    \/ \E e \in HookEnvs, o \in {HookValidateBase} :
           useSolverValidate(1, e[1], e[2], o, Undefined)
    \/ \E e \in HookEnvs, a \in {Undefined, Obj([symmetrical |-> Bool(TRUE)])} :
           useSolverGenerate(1, e[1], e[2], a, Undefined)
    \/ QueryFn(1, 1)
    \/ \E r \in ResponsesWide : TransportResolve(1, r)
    \/ \E e \in ErrorsWide : TransportReject(1, e)
    \/ Resume(1)
    \/ QueryFnSettle(1)

SpecQueryFn == InitQueryFn /\ [][NextQueryFn]_vars

----------------------------------------------------------------------------
(* Vocabulary of the properties *)

IsPrefix(p, s) == Len(p) <= Len(s) /\ SubSeq(s, 1, Len(p)) = p

Contains(s, sub) ==
    \E i \in 0..(Len(s) - Len(sub)) : SubSeq(s, i + 1, i + Len(sub)) = sub

HasChar(s, ch) == \E i \in 1..Len(s) : s[i] = ch

FirstIndex(s, ch) == CHOOSE i \in 1..Len(s) : s[i] = ch /\ \A j \in 1..(i - 1) : s[j] # ch

RECURSIVE SplitOn(_, _)
SplitOn(s, ch) ==
    IF ~HasChar(s, ch) THEN <<s>>
    ELSE <<SubSeq(s, 1, FirstIndex(s, ch) - 1)>>
         \o SplitOn(SubSeq(s, FirstIndex(s, ch) + 1, Len(s)), ch)

\* what a server reads: the text after the first '?', cut at every '&', each
\* piece's key being the text before its first '='
QueryOf(url) ==
    IF HasChar(url, "?") THEN SubSeq(url, FirstIndex(url, "?") + 1, Len(url)) ELSE <<>>

KeyOfPair(pair) ==
    IF HasChar(pair, "=") THEN SubSeq(pair, 1, FirstIndex(pair, "=") - 1) ELSE pair

QueryKeys(url) ==
    IF QueryOf(url) = <<>> THEN {}
    ELSE {KeyOfPair(SplitOn(QueryOf(url), "&")[i]) :
            i \in 1..Len(SplitOn(QueryOf(url), "&"))}

\* the number of '/' characters that end s
TrailingSlashCount(s) ==
    CHOOSE n \in 0..Len(s) :
        /\ \A i \in (Len(s) - n + 1)..Len(s) : s[i] = "/"
        /\ n < Len(s) => s[Len(s) - n] # "/"

EndpointPath(op) ==
    CASE op = "solve" -> S_api_solve
      [] op = "validate" -> S_api_validate
      [] op = "generate" -> S_api_generate

Gets == 1..Len(getLog)
CallOf(i) == calls[getLog[i].call]

\* the string parameters an operation was given, as (URL key, value) pairs
StringParams(k) ==
    {kv \in (IF k.op = "solve"
             THEN {<<K_original, prop(k.arg, "original")>>,
                   <<K_user, prop(k.arg, "user")>>,
                   <<K_pencilmarks, prop(k.arg, "pencilmarks")>>,
                   <<K_filters, prop(k.arg, "filters")>>}
             ELSE IF k.op = "validate"
             THEN {<<K_original, prop(k.arg, "original")>>}
             ELSE {}) : kv[2].t = "string"}

S_percent2C == <<"%", "2", "C">>

----------------------------------------------------------------------------
(* C1: for a base URL ending in N >= 0 '/' characters, every URL passed to  *)
(* the transport starts with the base URL without its N trailing slashes,   *)
(* immediately followed by the endpoint path of the operation.              *)
C1_TrailingSlashesStripped ==
    \A i \in Gets :
        LET b == cfg.baseUrl
            stripped == SubSeq(b, 1, Len(b) - TrailingSlashCount(b))
        IN  IsPrefix(stripped \o EndpointPath(CallOf(i).op), getLog[i].url)

\* a GET was issued by a client whose base URL ends in two or more slashes
C1_Witness ==
    /\ Len(getLog) > 0
    /\ TrailingSlashCount(cfg.baseUrl) >= 2
    /\ IsPrefix(Host \o <<"/", "a", "p", "i", "/">>, getLog[1].url)

----------------------------------------------------------------------------
----------------------------------------------------------------------------
(* C4 *)

AllOptionalGiven(k) ==
    /\ k.op = "solve"
    /\ prop(k.arg, "autoPencilmarks") = Bool(FALSE)
    /\ prop(k.arg, "pencilmarks") = Str(V_comma)
    /\ prop(k.arg, "filters") = Str(V_test)

S_autopencilmarks_false == K_autopencilmarks \o <<"=">> \o S_false
S_filters_test == K_filters \o <<"=">> \o V_test

----------------------------------------------------------------------------
(* C5 *)

OptionalOfSolve ==
    {<<"autoPencilmarks", K_autopencilmarks>>, <<"pencilmarks", K_pencilmarks>>,
     <<"filters", K_filters>>}

\* the symmetrical value generate was called with: none for generate(), for
\* generate({}) and for generate({symmetrical: undefined})
SymmetricalGiven(k) ==
    IF k.arg.t = "undefined" THEN Undefined ELSE prop(k.arg, "symmetrical")

\* no string value given to the call holds a '&'
AmpFree(k) == \A kv \in StringParams(k) : ~HasChar(kv[2].s, "&")

\* the characters a parameter adds to a URL: nothing when it is undefined,
\* else a separator, the key, '=' and the text of the value
PairLen(key, v) ==
    IF v.t = "undefined" THEN 0
    ELSE Len(key) + 2 +
         (IF v.t = "boolean" THEN (IF v.b THEN 4 ELSE 5) ELSE Len(v.s))

ParamsLen(k) ==
    CASE k.op = "solve" ->
            PairLen(K_original, prop(k.arg, "original"))
            + PairLen(K_user, prop(k.arg, "user"))
            + PairLen(K_autopencilmarks, prop(k.arg, "autoPencilmarks"))
            + PairLen(K_pencilmarks, prop(k.arg, "pencilmarks"))
            + PairLen(K_filters, prop(k.arg, "filters"))
      [] k.op = "validate" -> PairLen(K_original, prop(k.arg, "original"))
      [] k.op = "generate" -> PairLen(K_symmetrical, SymmetricalGiven(k))

(* C5: an optional parameter whose value is undefined never appears in the  *)
(* URL, and a boolean that is provided is sent as the literal 'true' or     *)
(* 'false'.  generate with no symmetrical value gives a URL without the     *)
(* text 'symmetrical' (and without '?'); generate with symmetrical false    *)
(* gives 'symmetrical=false', with true 'symmetrical=true'; solve sends     *)
(* autoPencilmarks the same way.  An undefined parameter adds no character  *)
(* to the URL: its length is that of the stripped base URL, the endpoint    *)
(* path and the provided parameters alone.  When no value holds a '&', the  *)
(* query has no pair whose key is that of an undefined optional parameter.  *)
C5_UndefinedOmittedBooleansLiteral ==
    \A i \in Gets :
        LET k == CallOf(i)
            url == getLog[i].url
        IN  /\ k.op = "generate" =>
                /\ SymmetricalGiven(k) = Undefined =>
                       ~Contains(url, K_symmetrical) /\ ~HasChar(url, "?")
                /\ SymmetricalGiven(k) = Bool(FALSE) =>
                       /\ Contains(url, K_symmetrical \o <<"=">> \o <<"f", "a", "l", "s", "e">>)
                       /\ ~Contains(url, <<"t", "r", "u", "e">>)
                /\ SymmetricalGiven(k) = Bool(TRUE) =>
                       /\ Contains(url, K_symmetrical \o <<"=">> \o <<"t", "r", "u", "e">>)
                       /\ ~Contains(url, <<"f", "a", "l", "s", "e">>)
            /\ k.op = "solve" =>
                /\ prop(k.arg, "autoPencilmarks") = Bool(FALSE) =>
                       Contains(url, K_autopencilmarks \o <<"=">> \o <<"f", "a", "l", "s", "e">>)
                /\ prop(k.arg, "autoPencilmarks") = Bool(TRUE) =>
                       Contains(url, K_autopencilmarks \o <<"=">> \o <<"t", "r", "u", "e">>)
                /\ \A o \in OptionalOfSolve :
                       (prop(k.arg, o[1]) = Undefined /\ AmpFree(k)) =>
                           o[2] \notin QueryKeys(url)
            /\ Len(url) = Len(client.config.BASE_URL) + Len(EndpointPath(k.op))
                          + ParamsLen(k)

\* generate() was called and its GET went to the bare endpoint, no query
C5_Witness ==
    \E i \in Gets :
        /\ CallOf(i).op = "generate"
        /\ CallOf(i).arg = Undefined
        /\ getLog[i].url = client.config.BASE_URL \o S_api_generate

----------------------------------------------------------------------------
(* C2 *)

DistinctKeys(pairs) ==
    \A i, j \in 1..Len(pairs) : i # j => pairs[i][1] # pairs[j][1]

\* the encoder's params after appending pairs in the order f gives
RECURSIVE AppendInOrder(_, _, _)
AppendInOrder(pairs, f, n) ==
    IF n = 0 THEN createURLSearchParams
    ELSE append(AppendInOrder(pairs, f, n - 1), pairs[f[n]][1], pairs[f[n]][2])

\* the six keys of the program in ascending lexicographic order
KeysAscending ==
    <<K_autopencilmarks, K_filters, K_original, K_pencilmarks, K_symmetrical, K_user>>

PairText(pairs, key) ==
    LET i == CHOOSE i \in 1..Len(pairs) : pairs[i][1] = key
    IN  key \o <<"=">> \o pairs[i][2]

\* the pairs as text, those of KeysAscending[n..] that were appended, in that order
RECURSIVE TextsFrom(_, _)
TextsFrom(pairs, n) ==
    IF n > Len(KeysAscending) THEN <<>>
    ELSE (IF \E i \in 1..Len(pairs) : pairs[i][1] = KeysAscending[n]
          THEN <<PairText(pairs, KeysAscending[n])>> ELSE <<>>)
         \o TextsFrom(pairs, n + 1)

(* C2: the query string does not depend on the order in which distinct     *)
(* keys are appended: every insertion order of the same pairs yields the    *)
(* output this encoder gave, and in it the keys are in ascending            *)
(* lexicographic order (user then original gives 'original=o&user=u').      *)
C2_OrderIndependentSortedKeys ==
    (query # None /\ DistinctKeys(appended)) =>
        /\ \A f \in Permutations(1..Len(appended)) :
               toString(AppendInOrder(appended, f, Len(appended))) = query.s
        /\ query.s = join(TextsFrom(appended, 1), <<"&">>)
        /\ appended = << <<K_user, V_1>>, <<K_original, V_2>> >> =>
               query.s = K_original \o <<"=">> \o V_2 \o <<"&">> \o K_user \o <<"=">> \o V_1

\* user was appended before original, and the output lists original first
C2_Witness ==
    /\ Len(appended) >= 2
    /\ DistinctKeys(appended)
    /\ appended[1][1] = K_user
    /\ appended[2][1] = K_original
    /\ query # None
    /\ IsPrefix(K_original, query.s)

----------------------------------------------------------------------------
(* Vocabulary of the outcome properties *)

Calls == DOMAIN calls

Done(c) == calls[c].pc = "done"
Fulfilled(c) == calls[c].settled # None /\ calls[c].settled.state = "fulfilled"
Rejected(c) == calls[c].settled # None /\ calls[c].settled.state = "rejected"
ResponseOf(c) == calls[c].settled.response
Threw(c) == calls[c].outcome.type = "throw"
Returned(c) == calls[c].outcome.type = "return"
ErrorOf(c) == calls[c].outcome.error

GetsOf(c) == {i \in Gets : getLog[i].call = c}

----------------------------------------------------------------------------
(* C6: whenever the transport resolves with ok = false, the operation fails *)
(* with a SudojoApiError whose statusCode is the response's status, whose   *)
(* response is the response's raw data (undefined included) and whose       *)
(* message is 'API request failed with status <status>'; it returns no      *)
(* value.                                                                   *)
C6_NotOkThrowsApiError ==
    \A c \in Calls :
        (Done(c) /\ Fulfilled(c) /\ ~ResponseOf(c).ok) =>
            /\ Threw(c)
            /\ ErrorOf(c).name = "SudojoApiError"
            /\ ErrorOf(c).statusCode = ResponseOf(c).status
            /\ ErrorOf(c).response = ResponseOf(c).data
            /\ ResponseOf(c).status = 404 =>
                   ErrorOf(c).message = "API request failed with status 404"
            /\ ResponseOf(c).status = 500 =>
                   ErrorOf(c).message = "API request failed with status 500"
            /\ ResponseOf(c).status = 200 =>
                   ErrorOf(c).message = "API request failed with status 200"

\* a call answered ok = false, status 404, with a body, has failed with 404
C6_Witness ==
    \E c \in Calls :
        /\ Done(c) /\ Fulfilled(c)
        /\ ResponseOf(c) = [ok |-> FALSE, status |-> 404, data |-> EnvCannotSolve]
        /\ Threw(c)
        /\ ErrorOf(c).statusCode = 404

----------------------------------------------------------------------------
(* C7: whenever the transport resolves with ok = true and a body that is    *)
(* undefined or null, the operation fails with a plain Error with message   *)
(* 'No data received from server', which is no SudojoApiError and has no    *)
(* status code, whatever the response's status.                             *)
C7_NoDataThrowsPlainError ==
    \A c \in Calls :
        (Done(c) /\ Fulfilled(c) /\ ResponseOf(c).ok
         /\ ResponseOf(c).data \in {Undefined, Null}) =>
            /\ Threw(c)
            /\ ErrorOf(c).name = "Error"
            /\ ErrorOf(c).message = "No data received from server"
            /\ "statusCode" \notin DOMAIN ErrorOf(c)

\* a call answered ok = true, status 404, body null, has failed with the
\* no-data error
C7_Witness ==
    \E c \in Calls :
        /\ Done(c) /\ Fulfilled(c)
        /\ ResponseOf(c) = [ok |-> TRUE, status |-> 404, data |-> Null]
        /\ Threw(c)
        /\ ErrorOf(c).name = "Error"

----------------------------------------------------------------------------
(* C8: whenever the transport resolves with ok = true and a present body,   *)
(* the operation returns exactly that body: an envelope with success false  *)
(* and error code cannot_solve or multiple_solutions is a normal result,    *)
(* and so is an envelope that breaks the success/error/data convention.     *)
C8_BodyReturnedVerbatim ==
    \A c \in Calls :
        (Done(c) /\ Fulfilled(c) /\ ResponseOf(c).ok
         /\ ResponseOf(c).data \notin {Undefined, Null}) =>
            /\ Returned(c)
            /\ calls[c].outcome.value = ResponseOf(c).data
            /\ ResponseOf(c).data = EnvCannotSolve =>
                   /\ prop(calls[c].outcome.value, "success") = Bool(FALSE)
                   /\ prop(prop(calls[c].outcome.value, "error"), "code")
                          = JsonStr("cannot_solve")
            /\ ResponseOf(c).data = EnvMultipleSolutions =>
                   prop(prop(calls[c].outcome.value, "error"), "code")
                       = JsonStr("multiple_solutions")

\* a call answered with the cannot_solve envelope has returned it
C8_Witness ==
    \E c \in Calls :
        /\ Done(c) /\ Fulfilled(c) /\ ResponseOf(c).ok
        /\ ResponseOf(c).data = EnvCannotSolve
        /\ Returned(c)

----------------------------------------------------------------------------
(* C9: when the transport's get rejects, the operation fails with that same *)
(* error, neither wrapped nor turned into a SudojoApiError or the no-data   *)
(* error, and the call's GET is the only one the client issues for it.      *)
C9_TransportErrorPropagates ==
    \A c \in Calls :
        Rejected(c) =>
            /\ Cardinality(GetsOf(c)) = 1
            /\ Done(c) =>
                   /\ Threw(c)
                   /\ ErrorOf(c) = calls[c].settled.error
                   /\ ErrorOf(c).name # "SudojoApiError"
                   /\ ErrorOf(c).message # "No data received from server"

\* a call whose GET was rejected with 'Network error' has failed with it
C9_Witness ==
    \E c \in Calls :
        /\ Done(c) /\ Rejected(c)
        /\ calls[c].settled.error = NetworkError
        /\ Threw(c)
        /\ ErrorOf(c).message = "Network error"

----------------------------------------------------------------------------
(* C10: every call of solve, validate or generate issues exactly one GET    *)
(* on the transport, whatever its outcome: after k calls the transport has  *)
(* received exactly k GETs, one per call, and a call that has completed     *)
(* has its GET in the log.                                                  *)
C10_OneGetPerCall ==
    /\ Len(getLog) = Cardinality({c \in Calls : calls[c].pc # "idle"})
    /\ \A c \in Calls :
           /\ calls[c].pc = "idle" => GetsOf(c) = {}
           /\ calls[c].pc # "idle" => Cardinality(GetsOf(c)) = 1
           /\ Done(c) => \E i \in Gets : getLog[i].call = c

\* two calls have completed, one by returning and one by a transport failure,
\* and the transport has received two GETs
C10_Witness ==
    /\ Len(getLog) = 2
    /\ \E c, d \in Calls :
           /\ Done(c) /\ Returned(c)
           /\ Done(d) /\ Rejected(d) /\ Threw(d)

----------------------------------------------------------------------------
(* C11 *)

\* the URL keys an operation may send, in ascending order
KeysOfOperation(op) ==
    CASE op = "solve" ->
            <<K_autopencilmarks, K_filters, K_original, K_pencilmarks, K_user>>
      [] op = "validate" -> <<K_original>>
      [] op = "generate" -> <<K_symmetrical>>

\* the value a call gave for a URL key
GivenValue(k, key) ==
    CASE k.op = "generate" -> SymmetricalGiven(k)
      [] k.op = "validate" -> prop(k.arg, "original")
      [] k.op = "solve" /\ key = K_original -> prop(k.arg, "original")
      [] k.op = "solve" /\ key = K_user -> prop(k.arg, "user")
      [] k.op = "solve" /\ key = K_autopencilmarks -> prop(k.arg, "autoPencilmarks")
      [] k.op = "solve" /\ key = K_pencilmarks -> prop(k.arg, "pencilmarks")
      [] k.op = "solve" /\ key = K_filters -> prop(k.arg, "filters")

ValueText(v) ==
    IF v = Bool(TRUE) THEN <<"t", "r", "u", "e">>
    ELSE IF v = Bool(FALSE) THEN <<"f", "a", "l", "s", "e">>
    ELSE v.s

\* 'key=value' for each of keys[n..] the call gave a value for
RECURSIVE GivenPairs(_, _, _)
GivenPairs(k, keys, n) ==
    IF n > Len(keys) THEN <<>>
    ELSE (IF GivenValue(k, keys[n]) = Undefined THEN <<>>
          ELSE <<keys[n] \o <<"=">> \o ValueText(GivenValue(k, keys[n]))>>)
         \o GivenPairs(k, keys, n + 1)

StrippedBaseUrl ==
    SubSeq(cfg.baseUrl, 1, Len(cfg.baseUrl) - TrailingSlashCount(cfg.baseUrl))

(* C11: the request each operation sends has a fixed shape.  The URL is     *)
(* the stripped base URL, then '/api/solve', '/api/validate' or             *)
(* '/api/generate', then, only when some parameter was given, '?' and the   *)
(* given parameters as 'key=value' joined by '&': for solve only the keys   *)
(* original, user, autopencilmarks, pencilmarks, filters, for validate      *)
(* only original, for generate at most symmetrical (generate() has no       *)
(* '?').  The headers are exactly Content-Type: application/json and        *)
(* Accept: application/json.  When no value holds a '&', the keys a server  *)
(* reads from the query are among the operation's keys.                     *)
C11_RequestShape ==
    \A i \in Gets :
        LET k == CallOf(i)
            url == getLog[i].url
            pairs == GivenPairs(k, KeysOfOperation(k.op), 1)
        IN  /\ url = StrippedBaseUrl \o EndpointPath(k.op)
                     \o (IF pairs = <<>> THEN <<>> ELSE <<"?">> \o join(pairs, <<"&">>))
            /\ getLog[i].headers = {<<"Content-Type", "application/json">>,
                                    <<"Accept", "application/json">>}
            /\ AmpFree(k) =>
                   QueryKeys(url) \subseteq
                       {KeysOfOperation(k.op)[j] : j \in 1..Len(KeysOfOperation(k.op))}
            /\ (k.op = "generate" /\ SymmetricalGiven(k) = Undefined) =>
                   url = StrippedBaseUrl \o <<"/", "a", "p", "i", "/", "g", "e", "n", "e",
                                              "r", "a", "t", "e">>

\* a solve with all five parameters was sent, its query starting with
\* 'autopencilmarks='
C11_Witness ==
    \E i \in Gets :
        /\ CallOf(i).op = "solve"
        /\ \A key \in {K_autopencilmarks, K_filters, K_pencilmarks} :
               GivenValue(CallOf(i), key) # Undefined
        /\ IsPrefix(K_autopencilmarks, QueryOf(getLog[i].url))

----------------------------------------------------------------------------
(* C12 *)

\* the URL an operation sends when it runs alone on a client of cfg
UrlAlone(op, arg) ==
    CASE op = "solve" -> solveUrl(constructor(TransportA, cfg), arg)
      [] op = "validate" -> validateUrl(constructor(TransportA, cfg), arg)
      [] op = "generate" -> generateUrl(constructor(TransportA, cfg), arg)

\* every call is as it would be had it run alone
EachCallAsAlone ==
    /\ client = constructor(TransportA, cfg)
    /\ \A i \in Gets :
           /\ getLog[i].url = UrlAlone(CallOf(i).op, CallOf(i).arg)
           /\ getLog[i].headers = constructor(TransportA, cfg).headers
           /\ getLog[i].net = TransportA
    /\ \A c \in Calls :
           Done(c) => calls[c].outcome = requestOutcome(calls[c].settled)

\* a step leaves the client alone and touches one call only, whose
\* arguments, transport answer and outcome, once there, stay
StepOfOneCall ==
    /\ client' = client
    /\ cfg' = cfg
    /\ \A c, d \in Calls : (calls'[c] # calls[c] /\ calls'[d] # calls[d]) => c = d
    /\ \A c \in Calls :
           /\ calls[c].pc # "idle" =>
                  calls'[c].op = calls[c].op /\ calls'[c].arg = calls[c].arg
           /\ calls[c].settled # None => calls'[c].settled = calls[c].settled
           /\ calls[c].outcome # None => calls'[c].outcome = calls[c].outcome
    /\ \A i \in Gets : i \in 1..Len(getLog') /\ getLog'[i] = getLog[i]

(* C12: no operation changes the client's state (base URL, endpoints,       *)
(* headers, transport), and calls on one client are independent under every *)
(* interleaving: with several calls in flight at once and their transport   *)
(* answers arriving in any order, each call's GET and outcome are those of  *)
(* its own arguments and its own transport answer, as if it had run alone,  *)
(* and a step of one call changes nothing of another call.                  *)
C12_CallsIndependent == [](EachCallAsAlone) /\ [][StepOfOneCall]_vars

\* the second call made has completed with its own answer while the first,
\* with another answer, has not
C12_Witness ==
    /\ 2 \in Calls
    /\ Done(2) /\ Fulfilled(2) /\ Returned(2)
    /\ calls[1].pc = "settled" /\ Fulfilled(1) /\ ~ResponseOf(1).ok

----------------------------------------------------------------------------
(* Vocabulary of the hook properties *)

Hooks == DOMAIN hooks

Mounted(h) == hooks[h].op # "none"

KeyOf(h) == hooks[h].query.queryKey

\* the input parameters of a hook's operation, as its last render got them
ParamsOf(h) ==
    CASE hooks[h].op = "solve" ->
            <<prop(hooks[h].options, "original"), prop(hooks[h].options, "user"),
              prop(hooks[h].options, "autoPencilmarks"),
              prop(hooks[h].options, "pencilmarks"), prop(hooks[h].options, "filters")>>
      [] hooks[h].op = "validate" -> <<prop(hooks[h].options, "original")>>
      [] hooks[h].op = "generate" -> <<prop(hooks[h].options, "symmetrical")>>

SameQuestion(h, g) == hooks[h].op = hooks[g].op /\ ParamsOf(h) = ParamsOf(g)

\* the parameters of h and g differ in exactly one place
OneParameterApart(h, g) ==
    /\ hooks[h].op = hooks[g].op
    /\ Cardinality({i \in 1..Len(ParamsOf(h)) : ParamsOf(h)[i] # ParamsOf(g)[i]}) = 1

----------------------------------------------------------------------------
(* C13: the cache key of a hook is a function of the operation and its      *)
(* input parameters: two hooks of the same operation with the same          *)
(* parameters have structurally identical keys, two hooks of different      *)
(* operations, or of one operation with a parameter changed (original,      *)
(* user, autoPencilmarks, pencilmarks, filters for solve; original for      *)
(* validate; symmetrical for generate), have different keys, and every key  *)
(* begins with 'sudojo-solver'.                                             *)
C13_KeyOfOperationAndParameters ==
    \A h, g \in Hooks :
        (Mounted(h) /\ Mounted(g)) =>
            /\ KeyOf(h)[1] = JsonStr("sudojo-solver")
            /\ SameQuestion(h, g) => KeyOf(h) = KeyOf(g)
            /\ hooks[h].op # hooks[g].op => KeyOf(h) # KeyOf(g)
            /\ OneParameterApart(h, g) => KeyOf(h) # KeyOf(g)
            /\ ~SameQuestion(h, g) => KeyOf(h) # KeyOf(g)

\* two solve hooks whose parameters differ in filters alone, with two keys
C13_Witness ==
    \E h, g \in Hooks :
        /\ hooks[h].op = "solve" /\ hooks[g].op = "solve"
        /\ OneParameterApart(h, g)
        /\ prop(hooks[h].options, "filters") # prop(hooks[g].options, "filters")
        /\ KeyOf(h) # KeyOf(g)

----------------------------------------------------------------------------
\* the caller's query options name no freshness window of their own
DefaultWindow(h) ==
    hooks[h].queryOptions = Undefined
        \/ "staleTime" \notin DOMAIN hooks[h].queryOptions.props

(* C14: the default freshness window is 0 for generate, 60000 ms for solve  *)
(* and 600000 ms for validate, generate < solve < validate, and each hook   *)
(* whose caller names no window of its own passes its own operation's       *)
(* window to the query cache.                                               *)
C14_FreshnessWindows ==
    /\ STALE_TIMES.GENERATE = 0
    /\ STALE_TIMES.SOLVE = 60000
    /\ STALE_TIMES.VALIDATE = 600000
    /\ STALE_TIMES.GENERATE < STALE_TIMES.SOLVE
    /\ STALE_TIMES.SOLVE < STALE_TIMES.VALIDATE
    /\ \A h \in Hooks :
           (Mounted(h) /\ DefaultWindow(h)) =>
               /\ hooks[h].op = "generate" => hooks[h].query.staleTime = 0
               /\ hooks[h].op = "solve" => hooks[h].query.staleTime = 60000
               /\ hooks[h].op = "validate" => hooks[h].query.staleTime = 600000

\* a generate hook and a validate hook are mounted with their default windows
C14_Witness ==
    \E h, g \in Hooks :
        /\ hooks[h].op = "generate" /\ DefaultWindow(h)
        /\ hooks[h].query.staleTime = 0
        /\ hooks[g].op = "validate" /\ DefaultWindow(g)
        /\ hooks[g].query.staleTime = 600000

----------------------------------------------------------------------------
\* the servers and transports two hooks' query functions address
AddressedApart(h, g) ==
    \/ hooks[h].query.queryFn.client.config.BASE_URL
           # hooks[g].query.queryFn.client.config.BASE_URL
    \/ hooks[h].query.queryFn.client.networkClient
           # hooks[g].query.queryFn.client.networkClient

(* C20: the cache key of a hook depends neither on the transport nor on the *)
(* client configuration: two hooks of the same operation with the same      *)
(* parameters have the same key also when their query functions address     *)
(* different base URLs or go through different transports.                  *)
C20_KeyIgnoresTransportAndConfig ==
    \A h, g \in Hooks :
        (Mounted(h) /\ Mounted(g) /\ SameQuestion(h, g)
         /\ (hooks[h].networkClient # hooks[g].networkClient
             \/ hooks[h].config # hooks[g].config)) =>
            /\ KeyOf(h) = KeyOf(g)
            /\ AddressedApart(h, g)

\* two solve hooks with the same parameters address two servers under one key
C20_Witness ==
    \E h, g \in Hooks :
        /\ hooks[h].op = "solve" /\ hooks[g].op = "solve"
        /\ ParamsOf(h) = ParamsOf(g)
        /\ hooks[h].config.baseUrl = Host /\ hooks[g].config.baseUrl = Host2
        /\ hooks[h].query.queryFn.client.config.BASE_URL
               # hooks[g].query.queryFn.client.config.BASE_URL
        /\ KeyOf(h) = KeyOf(g)

----------------------------------------------------------------------------
\* the GETs of the run of h's query function
GetsOfRun(h) == {i \in Gets : getLog[i].call = hooks[h].run.call}

\* the operation of the client that corresponds to a hook
UrlOfOperation(op, cl, arg) ==
    CASE op = "solve" -> solveUrl(cl, arg)
      [] op = "validate" -> validateUrl(cl, arg)
      [] op = "generate" -> generateUrl(cl, arg)

(* C16: the hook layer adds no failure semantics of its own.  The query     *)
(* function each of useSolverSolve, useSolverValidate and useSolverGenerate *)
(* hands to the query cache calls the hook's own operation with the hook's  *)
(* options on a client built from the hook's transport and config; a run of *)
(* it sends that operation's one GET through that transport, and its        *)
(* outcome is the outcome of the operation: the same returned envelope or   *)
(* the same thrown error.                                                   *)
C16_QueryFnIsTheOperation ==
    \A h \in Hooks :
        /\ Mounted(h) =>
               hooks[h].query.queryFn =
                   [client |-> constructor(hooks[h].networkClient, hooks[h].config),
                    op |-> hooks[h].op, arg |-> hooks[h].options]
        /\ hooks[h].run.pc # "idle" =>
               LET fn == hooks[h].run.fn
                   c == hooks[h].run.call
               IN  /\ fn.op = hooks[h].op
                   /\ calls[c].op = fn.op /\ calls[c].arg = fn.arg
                   /\ Cardinality(GetsOfRun(h)) = 1
                   /\ \A i \in GetsOfRun(h) :
                          /\ getLog[i].url = UrlOfOperation(fn.op, fn.client, fn.arg)
                          /\ getLog[i].net = fn.client.networkClient
                          /\ getLog[i].headers = fn.client.headers
                   /\ hooks[h].run.pc = "settled" =>
                          /\ Done(c)
                          /\ hooks[h].run.result = requestOutcome(calls[c].settled)
                          /\ hooks[h].run.result = calls[c].outcome

\* the query function of a validate hook on the second transport has failed
\* with the SudojoApiError of a 404
C16_Witness ==
    \E h \in Hooks :
        /\ hooks[h].op = "validate"
        /\ hooks[h].run.pc = "settled"
        /\ hooks[h].run.fn.client.networkClient = TransportB
        /\ hooks[h].run.result.type = "throw"
        /\ hooks[h].run.result.error.name = "SudojoApiError"
        /\ hooks[h].run.result.error.statusCode = 404

----------------------------------------------------------------------------
\* the configuration with the other timeout
OtherTimeout ==
    [cfg EXCEPT !.timeout = IF cfg.timeout = Undefined THEN Num(30000) ELSE Undefined]

UrlWith(config, op, arg) ==
    CASE op = "solve" -> solveUrl(constructor(TransportA, config), arg)
      [] op = "validate" -> validateUrl(constructor(TransportA, config), arg)
      [] op = "generate" -> generateUrl(constructor(TransportA, config), arg)

\* client, URLs, headers and outcomes are those of the other timeout too
TimeoutChangesNothing ==
    /\ client = constructor(TransportA, OtherTimeout)
    /\ \A i \in Gets :
           /\ getLog[i].url = UrlWith(OtherTimeout, CallOf(i).op, CallOf(i).arg)
           /\ getLog[i].headers = constructor(TransportA, OtherTimeout).headers
    /\ \A c \in Calls :
           /\ calls[c].pc \in {"idle", "awaiting"} =>
                  calls[c].settled = None /\ calls[c].outcome = None
           /\ calls[c].pc = "settled" => calls[c].outcome = None
           /\ Done(c) =>
                  /\ Fulfilled(c) \/ Rejected(c)
                  /\ Rejected(c) => ErrorOf(c) = calls[c].settled.error
                  /\ (Fulfilled(c) /\ Threw(c)) =>
                         ErrorOf(c).message \in
                             {"No data received from server",
                              "API request failed with status 200",
                              "API request failed with status 404",
                              "API request failed with status 500"}

\* a call leaves its await only by an answer of the transport, and completes
\* only once it has that answer
CompletesOnlyAfterTransport ==
    \A c \in Calls :
        /\ (calls[c].pc = "awaiting" /\ calls'[c].pc # "awaiting") =>
               /\ calls'[c].pc = "settled"
               /\ calls'[c].settled # None
               /\ calls'[c].settled.state \in {"fulfilled", "rejected"}
        /\ (calls'[c].pc = "done" /\ calls[c].pc # "done") =>
               /\ calls[c].pc = "settled"
               /\ calls[c].settled # None

----------------------------------------------------------------------------
\* the pairs appended with a key, in the order they were appended
AppendedWith(key) == SelectSeq(appended, LAMBDA p : p[1] = key)

\* 'key=value' for every pair appended with a key of KeysAscending[n..]:
\* key by key, the values of one key together and in the order appended
RECURSIVE EveryTextFrom(_)
EveryTextFrom(n) ==
    IF n > Len(KeysAscending) THEN <<>>
    ELSE [j \in 1..Len(AppendedWith(KeysAscending[n])) |->
             KeysAscending[n] \o <<"=">> \o AppendedWith(KeysAscending[n])[j][2]]
         \o EveryTextFrom(n + 1)

(* C17: when a key is appended to the query encoder more than once, every   *)
(* appended value is emitted, the values of that key are adjacent in the    *)
(* output and in their insertion order, and the output has exactly as many  *)
(* 'key=value' pairs as there were append calls; with no append the output  *)
(* is the empty string, and the output never starts with '?' or '&'.        *)
C17_RepeatedKeysKeepEveryValue ==
    query # None =>
        /\ query.s = join(EveryTextFrom(1), <<"&">>)
        /\ Len(EveryTextFrom(1)) = Len(appended)
        /\ appended # <<>> => Len(SplitOn(query.s, "&")) = Len(appended)
        /\ appended = <<>> => query.s = <<>>
        /\ query.s # <<>> => query.s[1] \notin {"?", "&"}
        /\ \A i \in 1..Len(appended) :
               Contains(query.s, appended[i][1] \o <<"=">> \o appended[i][2])
        /\ appended = << <<K_user, V_2>>, <<K_original, V_1>>, <<K_user, V_1>> >> =>
               query.s = K_original \o <<"=">> \o V_1 \o <<"&">>
                         \o K_user \o <<"=">> \o V_2 \o <<"&">>
                         \o K_user \o <<"=">> \o V_1

\* user was appended twice, with 2 and then with 1, around another key, and
\* the output has been computed
C17_Witness ==
    /\ appended = << <<K_user, V_2>>, <<K_original, V_1>>, <<K_user, V_1>> >>
    /\ query # None
    /\ Len(SplitOn(query.s, "&")) = 3

----------------------------------------------------------------------------
(* C18: the not-ok check comes before the absent-body check: a call whose   *)
(* GET resolves with ok = false and a body that is undefined or null fails  *)
(* with a SudojoApiError carrying the status code, its response undefined   *)
(* or null as the body was, and never with the 'No data received from       *)
(* server' error.                                                           *)
C18_NotOkBeforeNoData ==
    \A c \in Calls :
        (Done(c) /\ Fulfilled(c) /\ ~ResponseOf(c).ok
         /\ ResponseOf(c).data \in {Undefined, Null}) =>
            /\ Threw(c)
            /\ ErrorOf(c).message # "No data received from server"
            /\ ErrorOf(c).name = "SudojoApiError"
            /\ "statusCode" \in DOMAIN ErrorOf(c)
            /\ ErrorOf(c).statusCode = ResponseOf(c).status
            /\ ErrorOf(c).response \in {Undefined, Null}
            /\ ErrorOf(c).response = ResponseOf(c).data

\* a call answered ok = false, status 500, body null, has failed with the
\* SudojoApiError of 500
C18_Witness ==
    \E c \in Calls :
        /\ Done(c) /\ Fulfilled(c)
        /\ ResponseOf(c) = [ok |-> FALSE, status |-> 500, data |-> Null]
        /\ Threw(c)
        /\ ErrorOf(c).name = "SudojoApiError"
        /\ ErrorOf(c).response = Null

----------------------------------------------------------------------------
\* the four ways a call ends, read off the outcome alone
OutcomeKind(o) ==
    CASE o.type = "return" -> "body"
      [] o.type = "throw" /\ o.error.name = "SudojoApiError" -> "api-error"
      [] o.type = "throw" /\ o.error.name = "Error"
             /\ o.error.message = "No data received from server" -> "no-data"
      [] OTHER -> "transport-error"

\* the way a call must end, read off the rejection, the ok flag and whether
\* the body is undefined or null, and nothing else
KindExpected(rejected, ok, absent) ==
    IF rejected THEN "transport-error"
    ELSE IF ~ok THEN "api-error"
    ELSE IF absent THEN "no-data"
    ELSE "body"

FalsyBodies == {Num(0), Bool(FALSE), Str(<<>>)}

(* C19: outcome classification is total and exclusive.  Every call whose    *)
(* GET settles and which resumes ends in exactly one of four outcomes: the  *)
(* transport's own error (GET rejected), SudojoApiError (ok false), the     *)
(* no-data error (ok true, body undefined or null), or the body returned    *)
(* (ok true, body present, the falsy bodies 0, false and '' included); and  *)
(* which one is decided by the rejection, the ok flag and the body being    *)
(* undefined or null alone: not by the status, nor by what the body holds.  *)
C19_OutcomeClassification ==
    \A c \in Calls :
        Done(c) =>
            /\ calls[c].outcome.type \in {"return", "throw"}
            /\ OutcomeKind(calls[c].outcome) =
                   KindExpected(Rejected(c),
                                Fulfilled(c) /\ ResponseOf(c).ok,
                                Fulfilled(c) /\ ResponseOf(c).data \in {Undefined, Null})
            /\ (Fulfilled(c) /\ ResponseOf(c).ok /\ ResponseOf(c).data \in FalsyBodies) =>
                   Returned(c) /\ calls[c].outcome.value = ResponseOf(c).data
            /\ Rejected(c) => Threw(c) /\ ErrorOf(c) = calls[c].settled.error

\* a call answered ok = true with the body 0 has returned 0
C19_Witness ==
    \E c \in Calls :
        /\ Done(c) /\ Fulfilled(c) /\ ResponseOf(c).ok
        /\ ResponseOf(c).data = Num(0)
        /\ Returned(c)
        /\ calls[c].outcome.value = Num(0)

----------------------------------------------------------------------------
(* Specification of two solve calls side by side *)

V_9 == <<"9">>
V_x == <<"x">>
V_ampPencilmarks ==
    <<"1", "&", "p", "e", "n", "c", "i", "l", "m", "a", "r", "k", "s", "=", "9">>

PairOptions ==
    {Obj([original |-> Str(o), user |-> Str(u), autoPencilmarks |-> a,
          pencilmarks |-> p, filters |-> f]) :
        o \in {V_1, V_ampPencilmarks}, u \in {V_2, V_9},
        a \in {Undefined, Bool(TRUE)},
        p \in {Undefined, Str(V_9)},
        f \in {Undefined, Str(V_x), Str(V_amp)}}

InitPair ==
    /\ cfg \in Configs
    /\ client = constructor(TransportA, cfg)
    /\ calls = [c \in {1, 2} |-> IdleCall]
    /\ getLog = <<>>
    /\ params = createURLSearchParams
    /\ appended = <<>>
    /\ query = None
    /\ hooks = NoHooks

\* Two calls of solve on one client, over values with and without '&'
NextPair == \E c \in {1, 2}, o \in PairOptions : Solve(c, o)

SpecPair == InitPair /\ [][NextPair]_vars

----------------------------------------------------------------------------
\* what a solve call was given: original, user, autoPencilmarks, pencilmarks,
\* filters
MappingOf(k) ==
    <<prop(k.arg, "original"), prop(k.arg, "user"), prop(k.arg, "autoPencilmarks"),
      prop(k.arg, "pencilmarks"), prop(k.arg, "filters")>>

\* the 'key=value' pieces a server cuts the query of a URL into
PiecesOf(url) ==
    IF QueryOf(url) = <<>> THEN {}
    ELSE {SplitOn(QueryOf(url), "&")[n] : n \in 1..Len(SplitOn(QueryOf(url), "&"))}

\* values without '&': different mappings give different URLs
AmpFreeUrlsApart ==
    \A i, j \in Gets :
        (AmpFree(CallOf(i)) /\ AmpFree(CallOf(j))
         /\ MappingOf(CallOf(i)) # MappingOf(CallOf(j))) =>
            getLog[i].url # getLog[j].url

\* call i gave filters = 'x&user=9', call j gave filters = 'x' and user = '9'
\* and is otherwise the same
FiltersCarriesUser(i, j) ==
    /\ MappingOf(CallOf(i))[5] = Str(V_amp)
    /\ MappingOf(CallOf(j)) =
           [MappingOf(CallOf(i)) EXCEPT ![5] = Str(V_x), ![2] = Str(V_9)]

\* call i gave original = '1&pencilmarks=9' and no pencilmarks, call j gave
\* original = '1' and pencilmarks = '9' and is otherwise the same
OriginalCarriesPencilmarks(i, j) ==
    /\ MappingOf(CallOf(i))[1] = Str(V_ampPencilmarks)
    /\ MappingOf(CallOf(i))[4] = Undefined
    /\ MappingOf(CallOf(j)) =
           [MappingOf(CallOf(i)) EXCEPT ![1] = Str(V_1), ![4] = Str(V_9)]

(* C21, as stated: for solve inputs whose values contain no '&', two        *)
(* different parameter mappings give different URLs, whereas a value        *)
(* containing '&key=value' (filters = 'x&user=9') yields the same URL as a  *)
(* call that supplies that extra key/value pair separately.                 *)
C21_AmpValueSameUrlAsSeparatePair ==
    /\ AmpFreeUrlsApart
    /\ \A i, j \in Gets :
           FiltersCarriesUser(i, j) => getLog[i].url = getLog[j].url

(* C21, amended: for solve inputs whose values contain no '&', two          *)
(* different parameter mappings give different URLs.  A value containing    *)
(* '&key=value' puts a piece 'key=value' into the URL where the value       *)
(* stands, not at the key's sorted place: filters = 'x&user=9' gives        *)
(* '...filters=x&user=9&original=...', which holds every piece of the URL   *)
(* of the call with filters = 'x' and user = '9' but is another URL.  The   *)
(* two URLs are the same when the carried key is the next one in sorted     *)
(* order and was not given: original = '1&pencilmarks=9' without            *)
(* pencilmarks gives the URL of original = '1' with pencilmarks = '9'.      *)
C21_AmpValueSpellsAParameter ==
    /\ AmpFreeUrlsApart
    /\ \A i, j \in Gets :
           /\ FiltersCarriesUser(i, j) =>
                  /\ getLog[i].url # getLog[j].url
                  /\ PiecesOf(getLog[j].url) \subseteq PiecesOf(getLog[i].url)
                  /\ Contains(getLog[i].url,
                              K_filters \o <<"=">> \o V_amp \o <<"&">> \o K_original)
                  /\ K_user \o <<"=">> \o V_9 \in PiecesOf(getLog[i].url)
           /\ OriginalCarriesPencilmarks(i, j) =>
                  /\ getLog[i].url = getLog[j].url
                  /\ MappingOf(CallOf(i)) # MappingOf(CallOf(j))
                  /\ ~AmpFree(CallOf(i))

\* the call with original = '1&pencilmarks=9' and the call with original =
\* '1' and pencilmarks = '9' have both been sent, with one URL
C21_Witness ==
    \E i, j \in Gets :
        /\ OriginalCarriesPencilmarks(i, j)
        /\ getLog[i].url = getLog[j].url

\* the call with filters = 'x&user=9' and the call with filters = 'x' and
\* user = '9' have both been sent, with two URLs
C21_WitnessFilters ==
    \E i, j \in Gets :
        /\ FiltersCarriesUser(i, j)
        /\ getLog[i].url # getLog[j].url

====
